---------------------------- MODULE Spec2Model ----------------------------
(***************************************************************************)
(* Model of html_to_warc.py: the converter from the NWC2010 record-framed  *)
(* HTML dump to gzip-ed WARC records.                                      *)
(*                                                                         *)
(* A byte is a one-character string, a bytes/str value is a sequence of    *)
(* them.  A dict is a sequence of <<key, value>> pairs with unique keys   *)
(* in insertion order.  The byte iterator `it` over the input file is the  *)
(* pair (input, pos): pos bytes have been taken from it.                   *)
(***************************************************************************)
EXTENDS Integers, Sequences, FiniteSets, TLC

(***************************************************************************)
(* Bounds of the model.                                                    *)
(***************************************************************************)
\* Largest number of records (the last one possibly truncated) in an input.
MaxRecords == 2
\* Longest raw header block drawn exhaustively for parse_header.
MaxRawLen == 5

(***************************************************************************)
(* Text primitives of Python's bytes and str.                              *)
(***************************************************************************)
NL == "\n"
None == <<"None">>

\* The characters str.strip()/int() treat as whitespace (those of the
\* modelled alphabet).
Whitespace == {" ", "\t", "\n", "\r"}
Digits == {"0", "1", "2", "3", "4", "5", "6", "7", "8", "9"}
DigitVal == [c \in Digits |->
               CASE c = "0" -> 0 [] c = "1" -> 1 [] c = "2" -> 2 [] c = "3" -> 3
                 [] c = "4" -> 4 [] c = "5" -> 5 [] c = "6" -> 6 [] c = "7" -> 7
                 [] c = "8" -> 8 [] c = "9" -> 9]
DigitChar == <<"0", "1", "2", "3", "4", "5", "6", "7", "8", "9">>

\* A byte outside ASCII (0xE9); every other byte of the model is ASCII.
NonAscii == "0xE9"

LowerMap == [A |-> "a", B |-> "b", C |-> "c", D |-> "d", E |-> "e", F |-> "f",
             G |-> "g", H |-> "h", I |-> "i", J |-> "j", K |-> "k", L |-> "l",
             M |-> "m", N |-> "n", O |-> "o", P |-> "p", Q |-> "q", R |-> "r",
             S |-> "s", T |-> "t", U |-> "u", V |-> "v", W |-> "w", X |-> "x",
             Y |-> "y", Z |-> "z"]

\* str.lower()
Lower(s) == [i \in 1..Len(s) |-> IF s[i] \in DOMAIN LowerMap THEN LowerMap[s[i]] ELSE s[i]]

RECURSIVE RStripSet(_, _)
RStripSet(s, cs) ==
    IF s # <<>> /\ s[Len(s)] \in cs THEN RStripSet(SubSeq(s, 1, Len(s) - 1), cs) ELSE s

RECURSIVE LStripSet(_, _)
LStripSet(s, cs) ==
    IF s # <<>> /\ s[1] \in cs THEN LStripSet(Tail(s), cs) ELSE s

\* str.rstrip() and str.strip() without argument
RStrip(s) == RStripSet(s, Whitespace)
Strip(s) == LStripSet(RStripSet(s, Whitespace), Whitespace)

\* Index of the first occurrence of c in s, 0 when there is none.
RECURSIVE IndexFrom(_, _, _)
IndexFrom(s, c, i) ==
    IF i > Len(s) THEN 0 ELSE IF s[i] = c THEN i ELSE IndexFrom(s, c, i + 1)

\* str.split(sep): the pieces between the occurrences of the character sep.
RECURSIVE Split(_, _)
Split(s, sep) ==
    LET i == IndexFrom(s, sep, 1)
    IN  IF i = 0 THEN <<s>>
        ELSE <<SubSeq(s, 1, i - 1)>> \o Split(SubSeq(s, i + 1, Len(s)), sep)

\* str.split(sep, 1): at most one split.
Split1(s, sep) ==
    LET i == IndexFrom(s, sep, 1)
    IN  IF i = 0 THEN <<s>> ELSE <<SubSeq(s, 1, i - 1), SubSeq(s, i + 1, Len(s))>>

\* str(n) of an int
RECURSIVE StrNat(_)
StrNat(n) == IF n < 10 THEN <<DigitChar[n + 1]>> ELSE StrNat(n \div 10) \o <<DigitChar[(n % 10) + 1]>>
Str(n) == IF n < 0 THEN <<"-">> \o StrNat(-n) ELSE StrNat(n)

\* Value of a digit string in which single underscores may separate digits.
RECURSIVE DigitsValue(_, _)
DigitsValue(s, acc) ==
    IF s = <<>> THEN acc
    ELSE IF s[1] = "_" THEN DigitsValue(Tail(s), acc)
    ELSE DigitsValue(Tail(s), acc * 10 + DigitVal[s[1]])

IsDigitString(s) ==
    /\ s # <<>>
    /\ s[1] \in Digits /\ s[Len(s)] \in Digits
    /\ \A i \in 1..Len(s) : s[i] \in Digits \cup {"_"}
    /\ \A i \in 1..(Len(s) - 1) : ~(s[i] = "_" /\ s[i + 1] = "_")

\* int(x) of a str or bytes: surrounding whitespace is ignored, then an
\* optional sign, then digits.  ok = FALSE stands for ValueError.
int(x) ==
    LET t == Strip(x)
        signed == t # <<>> /\ t[1] \in {"+", "-"}
        d == IF signed THEN Tail(t) ELSE t
    IN  IF IsDigitString(d)
        THEN [ok |-> TRUE, val |-> IF signed /\ t[1] = "-" THEN -DigitsValue(d, 0) ELSE DigitsValue(d, 0)]
        ELSE [ok |-> FALSE, val |-> 0]

\* bytes.decode("ascii") succeeds (it is then the identity on the model's bytes).
IsAscii(bs) == \A i \in 1..Len(bs) : bs[i] # NonAscii

(***************************************************************************)
(* dict[str, str]                                                          *)
(***************************************************************************)
Keys(d) == {d[i][1] : i \in 1..Len(d)}
KeyIndex(d, k) == CHOOSE i \in 1..Len(d) : d[i][1] = k
Get(d, k) == d[KeyIndex(d, k)][2]
\* d[k] = v
DictSet(d, k, v) ==
    IF k \in Keys(d) THEN [d EXCEPT ![KeyIndex(d, k)] = <<k, v>>] ELSE Append(d, <<k, v>>)

(***************************************************************************)
(* read_chunk                                                              *)
(***************************************************************************)
\* The results of read_chunk: ok = FALSE is StopIteration raised by
\* next(it); `bytes` is out_buffer and `pos` the bytes the iterator has
\* yielded when the call ends either way.

\* read_chunk(it): the first byte, then bytes until one is a newline.
read_chunk_line(inp, p) ==
    LET nl == IndexFrom(inp, NL, p + 1)
    IN  IF nl = 0
        THEN [ok |-> FALSE, bytes |-> SubSeq(inp, p + 1, Len(inp)), pos |-> Len(inp)]
        ELSE [ok |-> TRUE, bytes |-> SubSeq(inp, p + 1, nl), pos |-> nl]

\* Variant: the loop also ends at a newline, as the loop for a line does.
ReadUntilNewline(inp, p, min_bytes) ==
    LET n == IF min_bytes < 0 THEN 0 ELSE min_bytes
        nl == IndexFrom(inp, NL, p + 1)
    IN  IF n > 0 /\ nl # 0 /\ nl < p + n
        THEN [ok |-> TRUE, bytes |-> SubSeq(inp, p + 1, nl), pos |-> nl]
        ELSE IF p + n > Len(inp)
        THEN [ok |-> FALSE, bytes |-> SubSeq(inp, p + 1, Len(inp)), pos |-> Len(inp)]
        ELSE [ok |-> TRUE, bytes |-> SubSeq(inp, p + 1, p + n), pos |-> p + n]

\* read_chunk(it, min_bytes): for _ in range(min_bytes): next(it).  An
\* empty range (min_bytes <= 0) takes nothing.
read_chunk_bytes(inp, p, min_bytes) ==
    LET n == IF min_bytes < 0 THEN 0 ELSE min_bytes
    IN  IF p + n > Len(inp)
        THEN [ok |-> FALSE, bytes |-> SubSeq(inp, p + 1, Len(inp)), pos |-> Len(inp)]
        ELSE [ok |-> TRUE, bytes |-> SubSeq(inp, p + 1, p + n), pos |-> p + n]

(***************************************************************************)
(* find_header_key, convert_date, parse_header                             *)
(***************************************************************************)
\* First key of the dict equal to `key` ignoring case, else `key` itself.
RECURSIVE find_header_key_from(_, _, _)
find_header_key_from(header, key, i) ==
    IF i > Len(header) THEN key
    ELSE IF Lower(header[i][1]) = Lower(key) THEN header[i][1]
    ELSE find_header_key_from(header, key, i + 1)

find_header_key(header, key) == find_header_key_from(header, key, 1)

\* Dummy timestamp, defined as the estimated last date of crawling.
FINAL_DATE_HTTP == <<"T", "h", "u", ",", " ", "3", "0", " ", "S", "e", "p", " ", "2", "0", "1", "0", " ", "2", "3", ":", "5", "9", ":", "5", "9", " ", "G", "M", "T">>
OtherDateHttp == <<"M", "o", "n", ",", " ", "0", "1", " ", "J", "a", "n", " ", "2", "0", "0", "7", " ", "0", "0", ":", "0", "0", ":", "0", "0", " ", "G", "M", "T">>
ImpossibleDateHttp == <<"3", "1", " ", "F", "e", "b", " ", "2", "0", "1", "0", " ", "0", "0", ":", "0", "0", ":", "0", "0">>

\* email.utils.parsedate on the date strings of the model: the first six
\* fields of the tuple it returns; every other string gives None.
ParsedateTable ==
    { <<FINAL_DATE_HTTP, <<2010, 9, 30, 23, 59, 59>> >>,
      <<OtherDateHttp, <<2007, 1, 1, 0, 0, 0>> >>,
      <<ImpossibleDateHttp, <<2010, 2, 31, 0, 0, 0>> >> }

parsedate(dt_str) ==
    IF \E e \in ParsedateTable : e[1] = dt_str
    THEN (CHOOSE e \in ParsedateTable : e[1] = dt_str)[2]
    ELSE None

DaysInMonth(y, m) ==
    IF m = 2 THEN (IF (y % 4 = 0 /\ y % 100 # 0) \/ y % 400 = 0 THEN 29 ELSE 28)
    ELSE IF m \in {4, 6, 9, 11} THEN 30 ELSE 31

\* datetime.datetime(*t) accepts the fields (it raises ValueError otherwise).
ValidDatetime(t) ==
    /\ t[1] \in 1..9999 /\ t[2] \in 1..12
    /\ t[3] \in 1..DaysInMonth(t[1], t[2])
    /\ t[4] \in 0..23 /\ t[5] \in 0..59 /\ t[6] \in 0..59

\* The datetime, or None once any exception was caught (and logged).
convert_date(dt_str) ==
    LET dt_tuple == parsedate(dt_str)
    IN  IF dt_tuple = None THEN None
        ELSE IF ValidDatetime(dt_tuple) THEN dt_tuple
        ELSE None

FINAL_DATE == convert_date(FINAL_DATE_HTTP)

\* Variant: the continuation is joined with a space.
ContinuationWithSeparator(value, text) == value \o <<" ">> \o text

\* kv_processed[-1][1] += x[0]
Continuation(value, text) == value \o text

\* The loop over kv: the [key, value] lists kept and the warnings logged.
RECURSIVE parse_header_loop(_, _, _, _)
parse_header_loop(kv, i, kv_processed, warnings) ==
    IF i > Len(kv) THEN [kv |-> kv_processed, log |-> warnings]
    ELSE LET x == kv[i]
         IN  IF Len(x) < 2
             THEN IF kv_processed = <<>>
                  THEN parse_header_loop(kv, i + 1, kv_processed,
                                         Append(warnings, "header_skipped"))
                  ELSE LET n == Len(kv_processed)
                       IN  parse_header_loop(kv, i + 1,
                               [kv_processed EXCEPT ![n] = <<@[1], Continuation(@[2], x[1])>>],
                               Append(warnings, "header_concatenated"))
             ELSE parse_header_loop(kv, i + 1, Append(kv_processed, x), warnings)

\* {k.strip(): v.strip() for k, v in kv_processed}
RECURSIVE DictOf(_, _, _)
DictOf(kv_processed, i, d) ==
    IF i > Len(kv_processed) THEN d
    ELSE DictOf(kv_processed, i + 1,
                DictSet(d, Strip(kv_processed[i][1]), Strip(kv_processed[i][2])))

parse_header_run(raw) ==
    LET decoded == RStrip(raw)
        split == Split(decoded, NL)
        lines == [j \in 1..Len(split) |-> RStrip(split[j])]
        kv == [j \in 1..Len(lines) |-> Split1(lines[j], ":")]
    IN  parse_header_loop(kv, 1, <<>>, <<>>)

parse_header(raw) == DictOf(parse_header_run(raw).kv, 1, <<>>)
parse_header_log(raw) == parse_header_run(raw).log

(***************************************************************************)
(* make_http_response, make_warc_record                                    *)
(***************************************************************************)
CRLF == <<"\r", "\n">>

\* http.HTTPStatus(status).phrase for the registered codes of the model;
\* None stands for the ValueError of an unregistered code.
HTTPStatusPhrase(status) ==
    CASE status = 200 -> <<"O", "K">>
      [] status = 404 -> <<"N", "o", "t", " ", "F", "o", "u", "n", "d">>
      [] OTHER -> None

RECURSIVE HeaderLines(_, _)
HeaderLines(header, i) ==
    IF i > Len(header) THEN <<>>
    ELSE header[i][1] \o <<":", " ">> \o header[i][2] \o CRLF \o HeaderLines(header, i + 1)

status_message(status) ==
    IF HTTPStatusPhrase(status) = None THEN Str(status)
    ELSE Str(status) \o <<" ">> \o HTTPStatusPhrase(status)

make_http_response(doc) ==
    <<"H", "T", "T", "P", "/", "1", ".", "1", " ">> \o status_message(doc.status) \o CRLF
      \o HeaderLines(doc.header, 1) \o CRLF \o doc.body

\* "%02d" and "%04d"
Pad2(n) == IF n < 10 THEN <<"0">> \o Str(n) ELSE Str(n)
Pad4(n) == IF n < 10 THEN <<"0", "0", "0">> \o Str(n)
           ELSE IF n < 100 THEN <<"0", "0">> \o Str(n)
           ELSE IF n < 1000 THEN <<"0">> \o Str(n) ELSE Str(n)

\* doc.date.strftime("%Y-%m-%dT%H:%M:%SZ")
strftime(d) ==
    Pad4(d[1]) \o <<"-">> \o Pad2(d[2]) \o <<"-">> \o Pad2(d[3]) \o <<"T">>
      \o Pad2(d[4]) \o <<":">> \o Pad2(d[5]) \o <<":">> \o Pad2(d[6]) \o <<"Z">>

make_warc_record(doc) ==
    LET payload == make_http_response(doc)
    IN  <<"W", "A", "R", "C", "/", "1", ".", "0">> \o CRLF
          \o <<"W", "A", "R", "C", "-", "T", "y", "p", "e", ":", " ", "r", "e", "s", "p", "o", "n", "s", "e">> \o CRLF
          \o <<"W", "A", "R", "C", "-", "R", "e", "c", "o", "r", "d", "-", "I", "D", ":", " ", "<", "u", "r", "n", ":", "u", "u", "i", "d", ":">> \o Str(doc.id) \o <<">">> \o CRLF
          \o <<"W", "A", "R", "C", "-", "D", "a", "t", "e", ":", " ">> \o strftime(doc.date) \o CRLF
          \o <<"W", "A", "R", "C", "-", "T", "a", "r", "g", "e", "t", "-", "U", "R", "I", ":", " ">> \o doc.url \o CRLF
          \o <<"C", "o", "n", "t", "e", "n", "t", "-", "L", "e", "n", "g", "t", "h", ":", " ">> \o Str(Len(payload)) \o CRLF
          \o <<"C", "o", "n", "t", "e", "n", "t", "-", "T", "y", "p", "e", ":", " ", "a", "p", "p", "l", "i", "c", "a", "t", "i", "o", "n", "/", "h", "t", "t", "p", ";", " ", "m", "s", "g", "t", "y", "p", "e", "=", "r", "e", "s", "p", "o", "n", "s", "e">> \o CRLF
          \o CRLF \o payload

\* gzip.compress(data): one self-contained gzip member.
gzip_compress(data) == [gzip |-> data]

(***************************************************************************)
(* Normalisation of one record's header (iter_documents, lines 114-140).   *)
(***************************************************************************)
ContentLengthKey == <<"C", "o", "n", "t", "e", "n", "t", "-", "L", "e", "n", "g", "t", "h">>
ContentTypeKey == <<"C", "o", "n", "t", "e", "n", "t", "-", "T", "y", "p", "e">>
DateKey == <<"D", "a", "t", "e">>

\* Variant: only a header value above the body length counts as a mismatch.
MismatchAsGreater(in_header, body_length) == in_header > body_length

\* body_length_in_header != body_length
Mismatch(in_header, body_length) == in_header # body_length

\* Variant: the header's date is replaced whether or not it converted.
DateOverwriteAlways(header, date_key, date_converted) ==
    DictSet(header, date_key, FINAL_DATE_HTTP)

\* header[date_key] = FINAL_DATE_HTTP on a failed conversion only
DateOverwrite(header, date_key, date_converted) ==
    IF date_converted = None THEN DictSet(header, date_key, FINAL_DATE_HTTP) ELSE header

\* Variant: a value that is no integer is taken as a mismatch, not an error.
ContentLengthLenient(header, content_length_key) == TRUE

\* int(header[content_length_key]) does not raise ValueError
ContentLengthParses(header, content_length_key) ==
    content_length_key \notin Keys(header) \/ int(Get(header, content_length_key)).ok

\* ok = FALSE: ValueError from int(header[content_length_key]).
Normalized(header, body_length) ==
    LET content_length_key == find_header_key(header, ContentLengthKey)
        content_type_key == find_header_key(header, ContentTypeKey)
        date_key == find_header_key(header, DateKey)
        cl_absent == content_length_key \notin Keys(header)
        cl_ok == ContentLengthParses(header, content_length_key)
        cl_differs == /\ ~cl_absent /\ cl_ok
                      /\ Mismatch(int(Get(header, content_length_key)).val, body_length)
        h1 == IF cl_absent \/ cl_differs
              THEN DictSet(header, content_length_key, Str(body_length)) ELSE header
        w1 == IF cl_differs THEN <<"content_length_mismatched">> ELSE <<>>
        ct_absent == content_type_key \notin Keys(h1)
        h2 == IF ct_absent THEN DictSet(h1, content_type_key, <<"t", "e", "x", "t", "/", "h", "t", "m", "l">>) ELSE h1
        w2 == IF ct_absent THEN <<"no_content_type">> ELSE <<>>
        date_absent == date_key \notin Keys(h2)
        h3 == IF date_absent THEN DictSet(h2, date_key, FINAL_DATE_HTTP) ELSE h2
        w3 == IF date_absent THEN <<"no_date">> ELSE <<>>
        date_converted == convert_date(Get(h3, date_key))
        h4 == DateOverwrite(h3, date_key, date_converted)
        w4 == IF date_converted = None
              THEN <<"datetime_conversion_error", "invalid_datetime">> ELSE <<>>
    IN  IF ~cl_ok
        THEN [ok |-> FALSE, header |-> header, date |-> None, log |-> <<>>]
        ELSE [ok |-> TRUE, header |-> h4,
              date |-> IF date_converted = None THEN FINAL_DATE ELSE date_converted,
              log |-> w1 \o w2 \o w3 \o w4]

StartsWith(s, prefix) ==
    Len(s) >= Len(prefix) /\ SubSeq(s, 1, Len(prefix)) = prefix

(***************************************************************************)
(* Input files.  A record is written as its six framing fields; an input   *)
(* is the bytes of some records, the last one cut anywhere.                *)
(***************************************************************************)
Bytes(r) ==
    r.url \o <<NL>> \o r.status \o <<NL>> \o r.hlen \o <<NL>> \o r.header
      \o r.blen \o <<NL>> \o r.body

\* A record whose length lines state the lengths of its blocks.
Rec(url, status, header, body) ==
    [url |-> url, status |-> status, hlen |-> Str(Len(header)), header |-> header,
     blen |-> Str(Len(body)), body |-> body]

Plain == Rec(<<"h", "t", "t", "p", ":", "/", "/", "a">>, <<"2", "0", "0">>, <<"A", ":", " ", "1", "\n">>, <<"h", "i">>)

\* Records that differ in their framing.
FramePool ==
    { Plain,
      Rec(<<"f", "t", "p">>, <<"4", "0", "4">>, <<"B", ":", "2", "\n">>, <<"a", "\n", "1">>),
      Rec(<<"h", "t", "t", "p", ":", "/", "/", "b">>, <<"9", "9", "9">>, <<"A", ":", " ", "1", "\n">>, <<"x">>),
      [Plain EXCEPT !.status = <<"O", "K">>],
      [Plain EXCEPT !.status = <<"-", "1">>],
      Rec(<<"h", "t", "t", "p", ":", "/", "/", "a">>, <<"2", "0", "0">>, <<>>, <<"h", "i">>),
      Rec(<<"h", "t", "t", "p", ":", "/", "/", "a">>, <<"2", "0", "0">>, <<"A", ":", " ", "1", "\n">>, <<>>),
      [Plain EXCEPT !.hlen = <<"x">>],
      [Plain EXCEPT !.blen = <<>>],
      [Rec(<<"h", "t", "t", "p", ":", "/", "/", "a">>, <<"2", "0", "0">>, <<>>, <<"h", "i">>) EXCEPT !.hlen = <<"-", "1">>],
      [Rec(<<"h", "t", "t", "p", ":", "/", "/", "a">>, <<"2", "0", "0">>, <<"A", ":", " ", "1", "\n">>, <<>>) EXCEPT !.blen = <<"-", "3">>],
      [Plain EXCEPT !.url = <<"h", NonAscii>>] }

\* Records that differ in their header block.
HeaderPool ==
    { Plain,
      Rec(<<"h", "t", "t", "p", ":", "/", "/", "a">>, <<"4", "0", "4">>, <<>>, <<"h", "i">>),
      Rec(<<"h", "t", "t", "p", ":", "/", "/", "a">>, <<"2", "0", "0">>,
          <<"C", "o", "n", "t", "e", "n", "t", "-", "L", "e", "n", "g", "t", "h", ":", " ", "2", "\n", "C", "o", "n", "t", "e", "n", "t", "-", "T", "y", "p", "e", ":", " ", "t", "e", "x", "t", "/", "p", "l", "a", "i", "n", "\n", "D", "a", "t", "e", ":", " ">> \o OtherDateHttp \o <<"\n">>, <<"h", "i">>),
      Rec(<<"x">>, <<"2", "0", "0">>, <<"c", "o", "n", "t", "e", "n", "t", "-", "l", "e", "n", "g", "t", "h", ":", " ", "5", "\n", "D", "A", "T", "E", ":", " ">> \o OtherDateHttp \o <<"\r", "\n">>, <<"0", "1", "2", "3", "4", "5", "6", "7", "8", "9">>),
      Rec(<<"h", "t", "t", "p", ":", "/", "/", "a">>, <<"2", "0", "0">>, <<"C", "o", "n", "t", "e", "n", "t", "-", "L", "e", "n", "g", "t", "h", ":", " ", "0", "2", "\n">>, <<"h", "i">>),
      Rec(<<"h", "t", "t", "p", ":", "/", "/", "a">>, <<"2", "0", "0">>, <<"C", "o", "n", "t", "e", "n", "t", "-", "L", "e", "n", "g", "t", "h", ":", " ", "a", "b", "c", "\n">>, <<"h", "i">>),
      Rec(<<"h", "t", "t", "p", ":", "/", "/", "a">>, <<"2", "0", "0">>, <<"D", "a", "t", "e", ":", " ", "y", "e", "s", "t", "e", "r", "d", "a", "y", "\n", "f", "o", "l", "d", "e", "d", "\n">>, <<"h", "i">>),
      Rec(<<"h", "t", "t", "p", ":", "/", "/", "a">>, <<"2", "0", "0">>, <<"d", "a", "t", "e", ":", " ">> \o ImpossibleDateHttp \o <<"\n", "D", "a", "t", "e", ":", " ">> \o OtherDateHttp \o <<"\n">>, <<"h", "i">>) }

RECURSIVE Concat(_, _)
Concat(rs, n) == IF n = 0 THEN <<>> ELSE Concat(rs, n - 1) \o Bytes(rs[n])

RecSeqs(pool) == UNION {[1..n -> pool] : n \in 0..MaxRecords}

(***************************************************************************)
(* State.                                                                  *)
(***************************************************************************)
VARIABLES
    input,          \* the bytes of the input file (iter_bytes)
    pos,            \* how many of them the iterator `it` has yielded
    pc,             \* where iter_documents/main stands
    url, status, header_length, header_raw, body_length, body,
                    \* the locals of iter_documents
    docs,           \* the Documents yielded so far, in order
    out_file,       \* the gzip members written to the output file, in order
    log,            \* the warnings logged, in order
    raised,         \* the exception that ended the conversion, "none" if none
    next_id,        \* stands for uuid.uuid4(): a fresh id per Document
    recs, complete, \* history: the records the input was made of, and
                    \*   whether the last of them is whole
    stop,           \* history: where StopIteration was raised, and how many
                    \*   bytes that read_chunk had taken by then
    body_start,     \* history: pos when the body-length line had been read
    hist,           \* history: per Document, the framing it was read from
    ph_pc, ph_raw, ph_out
                    \* parse_header applied on its own to the block ph_raw

locals == <<url, status, header_length, header_raw, body_length, body>>
history == <<recs, complete, body_start>>
ph == <<ph_pc, ph_raw, ph_out>>
vars == <<input, pos, pc, locals, docs, out_file, log, raised, next_id,
          history, stop, hist, ph>>

NoStop == [at |-> "none", consumed |-> 0]

InitRun ==
    /\ pos = 0
    /\ pc = "ReadURL"
    /\ url = <<>> /\ status = 0 /\ header_length = 0 /\ header_raw = <<>>
    /\ body_length = 0 /\ body = <<>>
    /\ docs = <<>> /\ out_file = <<>> /\ log = <<>>
    /\ raised = "none"
    /\ next_id = 1
    /\ stop = NoStop
    /\ body_start = 0
    /\ hist = <<>>
    /\ ph_pc = "idle" /\ ph_raw = <<>> /\ ph_out = <<>>

\* An input of at most MaxRecords records of the pool, the last one cut
\* after any of its bytes.
InitFrom(pool) ==
    /\ \E rs \in RecSeqs(pool) :
         IF rs = <<>>
         THEN input = <<>> /\ recs = rs /\ complete = TRUE
         ELSE \E k \in 1..Len(Bytes(rs[Len(rs)])) :
                /\ input = Concat(rs, Len(rs) - 1) \o SubSeq(Bytes(rs[Len(rs)]), 1, k)
                /\ recs = rs
                /\ complete = (k = Len(Bytes(rs[Len(rs)])))
    /\ InitRun

\* Whole records only.
InitWhole(pool) ==
    /\ \E rs \in RecSeqs(pool) :
         input = Concat(rs, Len(rs)) /\ recs = rs /\ complete = TRUE
    /\ InitRun

Init == InitFrom(FramePool)
InitNorm == InitWhole(HeaderPool)

(***************************************************************************)
(* iter_documents: one action per statement that reads the input, then     *)
(* the skip test and the normalisation; main: the write of a record.       *)
(***************************************************************************)
\* Variant: no except clause; StopIteration leaves the generator.
StopIterationUncaught(r) ==
    /\ pc' = "Fatal"
    /\ pos' = r.pos
    /\ stop' = [at |-> pc, consumed |-> Len(r.bytes)]
    /\ raised' = "StopIteration"

\* except StopIteration: pass -- the generator ends.
StopIterationAt(r) ==
    /\ pc' = "Done"
    /\ pos' = r.pos
    /\ stop' = [at |-> pc, consumed |-> Len(r.bytes)]
    /\ raised' = raised

\* Any other exception leaves the generator and main.
Raise(exc, p) ==
    /\ pc' = "Fatal"
    /\ pos' = p
    /\ raised' = exc
    /\ stop' = stop

Advance(to, p) ==
    /\ pc' = to
    /\ pos' = p
    /\ raised' = raised
    /\ stop' = stop

\* url = read_chunk(it).decode("ascii").rstrip("\n")
ReadURL ==
    /\ pc = "ReadURL"
    /\ LET r == read_chunk_line(input, pos)
       IN  IF ~r.ok
           THEN StopIterationAt(r) /\ UNCHANGED locals
           ELSE IF ~IsAscii(r.bytes)
           THEN Raise("UnicodeDecodeError", r.pos) /\ UNCHANGED locals
           ELSE /\ Advance("ReadStatus", r.pos)
                /\ url' = RStripSet(r.bytes, {NL})
                /\ UNCHANGED <<status, header_length, header_raw, body_length, body>>
    /\ UNCHANGED <<input, docs, out_file, log, next_id, history, hist, ph>>

\* status = int(read_chunk(it))
ReadStatus ==
    /\ pc = "ReadStatus"
    /\ LET r == read_chunk_line(input, pos)
       IN  IF ~r.ok
           THEN StopIterationAt(r) /\ UNCHANGED locals
           ELSE IF ~int(r.bytes).ok
           THEN Raise("ValueError", r.pos) /\ UNCHANGED locals
           ELSE /\ Advance("ReadHeaderLength", r.pos)
                /\ status' = int(r.bytes).val
                /\ UNCHANGED <<url, header_length, header_raw, body_length, body>>
    /\ UNCHANGED <<input, docs, out_file, log, next_id, history, hist, ph>>

\* header_length = int(read_chunk(it))
ReadHeaderLength ==
    /\ pc = "ReadHeaderLength"
    /\ LET r == read_chunk_line(input, pos)
       IN  IF ~r.ok
           THEN StopIterationAt(r) /\ UNCHANGED locals
           ELSE IF ~int(r.bytes).ok
           THEN Raise("ValueError", r.pos) /\ UNCHANGED locals
           ELSE /\ Advance("ReadHeaderBlock", r.pos)
                /\ header_length' = int(r.bytes).val
                /\ UNCHANGED <<url, status, header_raw, body_length, body>>
    /\ UNCHANGED <<input, docs, out_file, log, next_id, history, hist, ph>>

\* header_raw = read_chunk(it, header_length)
ReadHeaderBlock ==
    /\ pc = "ReadHeaderBlock"
    /\ LET r == read_chunk_bytes(input, pos, header_length)
       IN  IF ~r.ok
           THEN StopIterationAt(r) /\ UNCHANGED locals
           ELSE /\ Advance("ReadBodyLength", r.pos)
                /\ header_raw' = r.bytes
                /\ UNCHANGED <<url, status, header_length, body_length, body>>
    /\ UNCHANGED <<input, docs, out_file, log, next_id, history, hist, ph>>

\* body_length = int(read_chunk(it))
ReadBodyLength ==
    /\ pc = "ReadBodyLength"
    /\ LET r == read_chunk_line(input, pos)
       IN  IF ~r.ok
           THEN StopIterationAt(r) /\ UNCHANGED <<locals, body_start>>
           ELSE IF ~int(r.bytes).ok
           THEN Raise("ValueError", r.pos) /\ UNCHANGED <<locals, body_start>>
           ELSE /\ Advance("ReadBodyBlock", r.pos)
                /\ body_length' = int(r.bytes).val
                /\ body_start' = r.pos
                /\ UNCHANGED <<url, status, header_length, header_raw, body>>
    /\ UNCHANGED <<input, docs, out_file, log, next_id, recs, complete, hist, ph>>

\* body = read_chunk(it, body_length)
ReadBodyBlock ==
    /\ pc = "ReadBodyBlock"
    /\ LET r == read_chunk_bytes(input, pos, body_length)
       IN  IF ~r.ok
           THEN StopIterationAt(r) /\ UNCHANGED locals
           ELSE /\ Advance("Normalize", r.pos)
                /\ body' = r.bytes
                /\ UNCHANGED <<url, status, header_length, header_raw, body_length>>
    /\ UNCHANGED <<input, docs, out_file, log, next_id, history, hist, ph>>

\* Variant: the test with `and`.
SkipIfBothZero(hl, bl) == hl = 0 /\ bl = 0

\* if header_length == 0 or body_length == 0
SkipCondition(hl, bl) == hl = 0 \/ bl = 0

\* ... : continue
Skip ==
    /\ pc = "Normalize"
    /\ SkipCondition(header_length, body_length)
    /\ pc' = "ReadURL"
    /\ UNCHANGED <<input, pos, locals, docs, out_file, log, raised, next_id,
                   history, stop, hist, ph>>

\* Lines 111-142: the warnings, the header's normalisation and the yield.
Normalize ==
    /\ pc = "Normalize"
    /\ ~SkipCondition(header_length, body_length)
    /\ LET w0 == IF StartsWith(url, <<"h", "t", "t", "p">>) THEN <<>> ELSE <<"url_not_http">>
           header == parse_header(header_raw)
           w1 == parse_header_log(header_raw)
           n == Normalized(header, body_length)
       IN  IF ~n.ok
           THEN /\ Raise("ValueError", pos)
                /\ log' = log \o w0 \o w1
                /\ UNCHANGED <<docs, next_id, hist>>
           ELSE /\ Advance("Yield", pos)
                /\ log' = log \o w0 \o w1 \o n.log
                /\ docs' = Append(docs, [id |-> next_id, url |-> url, date |-> n.date,
                                         status |-> status, header |-> n.header,
                                         body |-> body])
                /\ next_id' = next_id + 1
                /\ hist' = Append(hist, [header_length |-> header_length,
                                         body_length |-> body_length,
                                         body_pos |-> body_start,
                                         parsed |-> header,
                                         log |-> n.log])
    /\ UNCHANGED <<input, locals, out_file, history, ph>>

\* main: warc_record = make_warc_record(doc); out_file.write(gzip.compress(...))
WriteRecord ==
    /\ pc = "Yield"
    /\ LET doc == docs[Len(docs)]
       IN  /\ out_file' = Append(out_file, gzip_compress(make_warc_record(doc)))
           /\ log' = IF HTTPStatusPhrase(doc.status) = None
                     THEN Append(log, "http_status_error") ELSE log
    /\ pc' = "ReadURL"
    /\ UNCHANGED <<input, pos, locals, docs, raised, next_id, history, stop, hist, ph>>

Next ==
    \/ ReadURL
    \/ ReadStatus
    \/ ReadHeaderLength
    \/ ReadHeaderBlock
    \/ ReadBodyLength
    \/ ReadBodyBlock
    \/ Skip
    \/ Normalize
    \/ WriteRecord

Spec == Init /\ [][Next]_vars
SpecNorm == InitNorm /\ [][Next]_vars

(***************************************************************************)
(* parse_header on its own: every block of at most MaxRawLen bytes of a    *)
(* small alphabet, and the example of the documentation.                   *)
(***************************************************************************)
HeaderAlphabet == {"A", "b", ":", " ", "\n"}
Example == <<"A", ":", " ", "1", "\n", "c", "o", "n", "t", "i", "n", "u", "e", "d", "\n", "B", ":", " ", "2", "\n">>
RawBlocks == UNION {[1..n -> HeaderAlphabet] : n \in 0..MaxRawLen} \cup {Example}

InitParse ==
    /\ ph_raw \in RawBlocks
    /\ ph_pc = "call" /\ ph_out = <<>>
    /\ input = <<>> /\ recs = <<>> /\ complete = TRUE
    /\ pos = 0
    /\ pc = "Idle"
    /\ url = <<>> /\ status = 0 /\ header_length = 0 /\ header_raw = <<>>
    /\ body_length = 0 /\ body = <<>>
    /\ docs = <<>> /\ out_file = <<>> /\ log = <<>>
    /\ raised = "none"
    /\ next_id = 1
    /\ stop = NoStop
    /\ body_start = 0
    /\ hist = <<>>

CallParseHeader ==
    /\ ph_pc = "call"
    /\ ph_out' = parse_header(ph_raw)
    /\ log' = parse_header_log(ph_raw)
    /\ ph_pc' = "returned"
    /\ UNCHANGED <<input, pos, pc, locals, docs, out_file, raised, next_id,
                   history, stop, hist, ph_raw>>

NextParse == CallParseHeader

SpecParse == InitParse /\ [][NextParse]_vars

(***************************************************************************)
(* What the records of an input should give, read off the records          *)
(* themselves (not off the run).                                           *)
(***************************************************************************)
\* The framing of r is sound: an ASCII URL, a non-negative status, and
\* length lines that state the lengths of the blocks that follow them.
WellFramed(r) ==
    /\ IsAscii(r.url)
    /\ int(r.status).ok /\ int(r.status).val >= 0
    /\ int(r.hlen).ok /\ int(r.hlen).val = Len(r.header)
    /\ int(r.blen).ok /\ int(r.blen).val = Len(r.body)

AllWellFramed(n) == \A i \in 1..n : WellFramed(recs[i])

NonEmpty(r) == Len(r.header) # 0 /\ Len(r.body) # 0

\* url, status and body of the records among the first n that are not skipped.
Expected(n) ==
    LET kept == SelectSeq(SubSeq(recs, 1, n), NonEmpty)
    IN  [i \in 1..Len(kept) |-> <<kept[i].url, int(kept[i].status).val, kept[i].body>>]

Yielded == [i \in 1..Len(docs) |-> <<docs[i].url, docs[i].status, docs[i].body>>]

\* Offset of the first byte after the n-th record.
Offset(n) == Len(Concat(recs, n))

\* The records wholly present in the input.
Whole == IF complete THEN Len(recs) ELSE Len(recs) - 1

Ended == pc \in {"Done", "Fatal"}

\* The record is not skipped and its Content-Length header is no integer.
BadContentLength(r) ==
    LET parsed == parse_header(r.header)
        k == find_header_key(parsed, ContentLengthKey)
    IN  NonEmpty(r) /\ k \in Keys(parsed) /\ ~int(Get(parsed, k)).ok

NoBadContentLength == \A i \in 1..Len(recs) : ~BadContentLength(recs[i])

\* s occurs in t
Contains(t, s) == \E i \in 1..(Len(t) - Len(s) + 1) : SubSeq(t, i, i + Len(s) - 1) = s

(***************************************************************************)
(* C1.  The input running out anywhere but at the first byte of a URL      *)
(* line is a fatal error: the conversion does not end in Done.             *)
(* The code catches StopIteration wherever next(it) raised it, so this     *)
(* fails.                                                                  *)
(***************************************************************************)
C1_Claim ==
    (stop.at # "none" /\ ~(stop.at = "ReadURL" /\ stop.consumed = 0))
        => (pc = "Fatal" /\ raised # "none")

(***************************************************************************)
(* C2.  A record with header length 0 or body length 0 yields no Document  *)
(* and no error, and the extractor is back at ReadURL on the first byte    *)
(* after its body block: whenever the extractor stands at ReadURL at the   *)
(* end of n soundly framed records, and when it has ended on a whole       *)
(* soundly framed input whose Content-Length headers are integers, the     *)
(* Documents yielded are exactly those of the records with both lengths    *)
(* non-zero, in order, and nothing was raised.                             *)
(***************************************************************************)
C2_Thm ==
    /\ \A n \in 0..Whole :
         (pc = "ReadURL" /\ pos = Offset(n) /\ AllWellFramed(n))
             => (Yielded = Expected(n) /\ raised = "none")
    /\ (Ended /\ complete /\ AllWellFramed(Len(recs)) /\ NoBadContentLength)
         => (pc = "Done" /\ raised = "none" /\ pos = Len(input)
             /\ Yielded = Expected(Len(recs)))

\* A skipped record (header length 0) was passed and the record after it
\* was yielded.
C2_Witness ==
    /\ pc = "Done" /\ complete /\ Len(recs) = 2 /\ AllWellFramed(2)
    /\ Len(recs[1].header) = 0 /\ Len(recs[1].body) # 0
    /\ Len(docs) = 1 /\ docs[1].body = recs[2].body

(***************************************************************************)
(* C3.  For an input of whole, soundly framed records the output file      *)
(* holds one archival record per record with both lengths non-zero, in     *)
(* order, each with that record's status in its HTTP status line.          *)
(* A Content-Length header that is no integer ends the conversion, so      *)
(* this fails.                                                             *)
(***************************************************************************)
C3_Claim ==
    (Ended /\ complete /\ AllWellFramed(Len(recs)))
        => /\ Len(out_file) = Len(Expected(Len(recs)))
           /\ \A i \in 1..Len(out_file) :
                Contains(out_file[i].gzip,
                         CRLF \o CRLF \o <<"H", "T", "T", "P", "/", "1", ".", "1", " ">> \o Str(Expected(Len(recs))[i][2]))

\* The input is exhausted and no byte of a URL line has been taken.
AtCleanEnd == pc = "ReadURL" /\ pos = Len(input)

(***************************************************************************)
(* C4.  When the input is exhausted as ReadURL starts (no byte of a URL    *)
(* line consumed), the extractor can take a step, and its step ends in     *)
(* Done with nothing raised and with the Documents it had yielded, all of  *)
(* them written; the empty input gives no Document.                        *)
(***************************************************************************)
C4_Thm ==
    /\ [](AtCleanEnd => (ENABLED ReadURL /\ Len(out_file) = Len(docs)
                          /\ (input = <<>> => docs = <<>>)))
    /\ [][AtCleanEnd => (pc' = "Done" /\ raised' = "none" /\ raised = "none"
                          /\ docs' = docs /\ out_file' = out_file)]_vars

C4_Witness ==
    /\ pc = "Done" /\ raised = "none"
    /\ stop = [at |-> "ReadURL", consumed |-> 0]
    /\ Len(docs) >= 1 /\ Len(out_file) = Len(docs)

(***************************************************************************)
(* C5.  A status line, header-length line or body-length line is accepted  *)
(* only if it is a non-negative integer.                                   *)
(* int() accepts a negative number and nothing rejects it, so this fails.  *)
(***************************************************************************)
C5_Claim == status >= 0 /\ header_length >= 0 /\ body_length >= 0

\* The warnings and the three cases of the content-length entry of the
\* i-th Document; hist[i].parsed is its header as parse_header returned it.
HasMismatchWarning(i) ==
    \E j \in 1..Len(hist[i].log) : hist[i].log[j] = "content_length_mismatched"

C6_Cases(i) ==
    LET parsed == hist[i].parsed
        k0 == find_header_key(parsed, ContentLengthKey)
        k == find_header_key(docs[i].header, ContentLengthKey)
        n == hist[i].body_length
    IN  /\ k \in Keys(docs[i].header)
        /\ (k0 \notin Keys(parsed))
             => (Get(docs[i].header, k) = Str(n) /\ ~HasMismatchWarning(i))
        /\ (k0 \in Keys(parsed) /\ int(Get(parsed, k0)).val # n)
             => (k = k0 /\ Get(docs[i].header, k) = Str(n) /\ HasMismatchWarning(i))

(***************************************************************************)
(* C6.  In every Document the content-length entry (looked up ignoring     *)
(* case) exists and is the decimal text of the body length read; it was    *)
(* added without a warning when the raw header had none, and overwritten   *)
(* with a mismatch warning when the raw header's value was a different     *)
(* number.                                                                 *)
(* As written this fails: a raw value equal in number but written          *)
(* otherwise ("02" for a body of 2 bytes) is left as it is.                *)
(***************************************************************************)
C6_Claim ==
    \A i \in 1..Len(docs) :
        /\ C6_Cases(i)
        /\ LET k == find_header_key(docs[i].header, ContentLengthKey)
           IN  Get(docs[i].header, k) = Str(hist[i].body_length)

\* C6, amended: the entry exists and its value is an integer equal to the
\* body's length; it is the decimal text of that length when it was added
\* or overwritten, and the raw header's own text when that was already
\* equal in number.
C6_Thm ==
    \A i \in 1..Len(docs) :
        /\ C6_Cases(i)
        /\ LET parsed == hist[i].parsed
               k0 == find_header_key(parsed, ContentLengthKey)
               k == find_header_key(docs[i].header, ContentLengthKey)
               n == hist[i].body_length
           IN  /\ int(Get(docs[i].header, k)).ok
               /\ int(Get(docs[i].header, k)).val = n
               /\ (k0 \in Keys(parsed) /\ int(Get(parsed, k0)).val = n)
                    => (Get(docs[i].header, k) = Get(parsed, k0) /\ ~HasMismatchWarning(i))

\* The raw header said 5 under a lower-case key, the body has 10 bytes:
\* the value is now "10" and the warning was logged.
C6_Witness ==
    \E i \in 1..Len(docs) :
        /\ Len(docs[i].body) = 10
        /\ <<"c", "o", "n", "t", "e", "n", "t", "-", "l", "e", "n", "g", "t", "h">> \in Keys(hist[i].parsed)
        /\ Get(hist[i].parsed, <<"c", "o", "n", "t", "e", "n", "t", "-", "l", "e", "n", "g", "t", "h">>) = <<"5">>
        /\ Get(docs[i].header, <<"c", "o", "n", "t", "e", "n", "t", "-", "l", "e", "n", "g", "t", "h">>) = <<"1", "0">>
        /\ ContentLengthKey \notin Keys(docs[i].header)
        /\ HasMismatchWarning(i)

\* 2010-09-30 23:59:59, and which date strings convert to what.
FallbackTimestamp == <<2010, 9, 30, 23, 59, 59>>

Converts(dt_str) ==
    \E e \in ParsedateTable : e[1] = dt_str /\ ValidDatetime(e[2])

Converted(dt_str) == (CHOOSE e \in ParsedateTable : e[1] = dt_str)[2]

(***************************************************************************)
(* C7.  In every Document: no date field in the raw header (ignoring       *)
(* case) -> the header has Date: FINAL_DATE_HTTP and date is FINAL_DATE;   *)
(* a date field that does not convert -> its value is overwritten with     *)
(* FINAL_DATE_HTTP and date is FINAL_DATE; one that converts -> date is    *)
(* the converted value and the header's value is as it was written.  The   *)
(* date is never None.                                                     *)
(***************************************************************************)
C7_Thm ==
    \A i \in 1..Len(docs) :
        LET parsed == hist[i].parsed
            k0 == find_header_key(parsed, DateKey)
            header == docs[i].header
        IN  /\ docs[i].date # None
            /\ IF k0 \notin Keys(parsed)
               THEN /\ DateKey \in Keys(header)
                    /\ Get(header, DateKey) = FINAL_DATE_HTTP
                    /\ docs[i].date = FallbackTimestamp
               ELSE IF ~Converts(Get(parsed, k0))
               THEN /\ Get(header, k0) = FINAL_DATE_HTTP
                    /\ docs[i].date = FallbackTimestamp
               ELSE /\ Get(header, k0) = Get(parsed, k0)
                    /\ docs[i].date = Converted(Get(parsed, k0))

\* All three cases among the Documents of one run: a date that converted
\* (kept as written under its upper-case key), one that did not, none.
C7_Witness ==
    /\ \E i \in 1..Len(docs) :
         /\ <<"D", "A", "T", "E">> \in Keys(docs[i].header)
         /\ Get(docs[i].header, <<"D", "A", "T", "E">>) = OtherDateHttp
         /\ docs[i].date = <<2007, 1, 1, 0, 0, 0>>
    /\ \E i \in 1..Len(docs) :
         /\ DateKey \in Keys(hist[i].parsed)
         /\ Get(hist[i].parsed, DateKey) = <<"y", "e", "s", "t", "e", "r", "d", "a", "y", "f", "o", "l", "d", "e", "d">>
         /\ Get(docs[i].header, DateKey) = FINAL_DATE_HTTP
         /\ docs[i].date = FallbackTimestamp

\* Header reconstruction written as a fold over the lines of the block.
HeaderLinesOf(raw) ==
    LET split == Split(RStrip(raw), NL)
    IN  [j \in 1..Len(split) |-> RStrip(split[j])]

\* One step of the fold over the lines: acc.map is the mapping so far,
\* acc.last the key of the latest key:value line (None before the first).
\* With trimmed = TRUE a value is trimmed when it is inserted, otherwise it
\* is kept as written.
FoldStep(acc, line, trimmed) ==
    LET colon == IndexFrom(line, ":", 1)
        k == Strip(SubSeq(line, 1, colon - 1))
        v == SubSeq(line, colon + 1, Len(line))
    IN  IF colon = 0
        THEN IF acc.last = None THEN acc
             ELSE [acc EXCEPT !.map = DictSet(@, acc.last, Get(@, acc.last) \o line)]
        ELSE [map |-> DictSet(acc.map, k, IF trimmed THEN Strip(v) ELSE v), last |-> k]

RECURSIVE Fold(_, _, _, _)
Fold(lines, i, acc, trimmed) ==
    IF i > Len(lines) THEN acc.map
    ELSE Fold(lines, i + 1, FoldStep(acc, lines[i], trimmed), trimmed)

TrimValues(map) == [i \in 1..Len(map) |-> <<map[i][1], Strip(map[i][2])>>]

Returned == ph_pc = "returned"

(***************************************************************************)
(* C8.  parse_header: a line without a colon is dropped when no key:value  *)
(* line precedes it, and otherwise its text is appended, with no           *)
(* separator, to the value of the key:value line before it; the other      *)
(* fields keep their values and order.                                     *)
(* Stated over the trimmed value of the preceding field this fails: the    *)
(* code appends to the untrimmed value and trims afterwards, so an empty   *)
(* value followed by " c" gives "c" and not " c".                          *)
(***************************************************************************)
C8_Claim ==
    Returned => ph_out = Fold(HeaderLinesOf(ph_raw), 1, [map |-> <<>>, last |-> None], TRUE)

\* C8, amended: the text is appended to the value as written after the colon,
\* and every value is trimmed of surrounding whitespace once the block has
\* been read.
C8_Thm ==
    Returned =>
        ph_out = TrimValues(Fold(HeaderLinesOf(ph_raw), 1, [map |-> <<>>, last |-> None], FALSE))

C8_Witness ==
    /\ Returned
    /\ ph_raw = Example
    /\ ph_out = << <<<<"A">>, <<"1", "c", "o", "n", "t", "i", "n", "u", "e", "d">>>>, <<<<"B">>, <<"2">>>> >>
    /\ log = <<"header_concatenated">>

(***************************************************************************)
(* C9.  The body of a Document read from a record with positive header     *)
(* and body length is the body-length bytes of the input that follow the   *)
(* body-length line: as many as declared, byte for byte.                   *)
(***************************************************************************)
C9_Thm ==
    \A i \in 1..Len(docs) :
        (hist[i].header_length > 0 /\ hist[i].body_length > 0)
            => /\ Len(docs[i].body) = hist[i].body_length
               /\ hist[i].body_pos >= 1 /\ input[hist[i].body_pos] = NL
               /\ hist[i].body_pos + hist[i].body_length <= Len(input)
               /\ \A j \in 1..hist[i].body_length :
                    docs[i].body[j] = input[hist[i].body_pos + j]

\* A body of three bytes, a newline among them, was yielded.
C9_Witness ==
    \E i \in 1..Len(docs) :
        /\ hist[i].body_length = 3
        /\ docs[i].body = <<"a", "\n", "1">>

\* The b-th record is the first with such a header.
FirstBad(b) == BadContentLength(recs[b]) /\ \A i \in 1..(b - 1) : ~BadContentLength(recs[i])

(***************************************************************************)
(* C10.  A Content-Length header (any case) whose value is no integer      *)
(* ends the conversion with an error: the Documents yielded are those of   *)
(* the records before the first such record, and no more.                  *)
(***************************************************************************)
C10_Thm ==
    \A b \in 1..Len(recs) :
        (FirstBad(b) /\ complete /\ AllWellFramed(Len(recs)))
            => /\ Len(docs) <= Len(Expected(b - 1))
               /\ Len(out_file) <= Len(Expected(b - 1))
               /\ Ended => /\ pc = "Fatal" /\ raised = "ValueError"
                           /\ Yielded = Expected(b - 1)
                           /\ Len(out_file) = Len(docs)

\* The conversion ended on the first of two records, after one Document.
C10_Witness ==
    /\ pc = "Fatal" /\ raised = "ValueError"
    /\ Len(recs) = 2 /\ FirstBad(1) /\ NonEmpty(recs[2]) /\ ~BadContentLength(recs[2])
    /\ docs = <<>> /\ out_file = <<>>
    /\ pos < Len(input)

=============================================================================
